---- MODULE Spec2Model ----
(***************************************************************************)
(* Model of the runtime asset API that go-bindata generates: the flat      *)
(* table _bindata, the tree _bintree, Asset, AssetInfo, AssetNames,        *)
(* AssetDir, RestoreAsset and RestoreAssets, for the two generated         *)
(* artifacts of the repository (uncompressed and gzip-compressed).         *)
(*                                                                         *)
(* A Go string is a sequence of tokens.  A token is "/", "\\" or a name    *)
(* that contains neither; the string is the concatenation of its tokens.   *)
(* A byte slice is a sequence of integers; the nil slice is <<>>.          *)
(* An error is a sequence of layers [fmt, name], outermost first (the      *)
(* format string and the name it is formatted with); the nil error is <<>>.*)
(***************************************************************************)
EXTENDS Integers, Sequences, FiniteSets, TLC

VARIABLES
  input,      \* the path the program passes to the API
  _bindata,   \* the package-level table: asset name -> loader
  _bintree,   \* the package-level tree
  artifact,   \* which generated file is linked in: "nocompress" or "compress"
  embedded,   \* the package-level byte slices _in_a_test_asset, ...
  gzip,       \* how the gzip reader behaves on each embedded payload
  last,       \* the last completed call of the lookup API and what it returned
  nwrites,    \* writes callers made into slices returned by Asset
  pc,         \* restore: "idle", "running" or "done"
  stack,      \* restore: call stack of RestoreAssets / RestoreAsset frames
  ret,        \* restore: error returned to the top-level caller
  dirs,       \* target file system: directories below (and including) dir
  files,      \* target file system: path -> [data, mode, atime, mtime]
  log,        \* restore: the steps of the call so far, with their errors
  entry,      \* restore: the top-level call and the file system it started on
  panicked,   \* the value of the panic that ended the program, nil when none
  validation  \* Config.validate: the Config, its environment and the result

vars == <<input, _bindata, _bintree, artifact, embedded, gzip, last, nwrites, pc, stack, ret, dirs, files, log, entry, panicked, validation>>

(***************************************************************************)
(* Bounds.                                                                 *)
(***************************************************************************)
MaxSegs == 3       \* longest input path, in separator-delimited segments
MaxWrites == 1     \* writes by callers into returned slices

InputSegs == {"", "in", "a", "b", "c", "test.asset"}
Seps == {"/", "\\"}

Seg(s) == IF s = "" THEN <<>> ELSE <<s>>

RECURSIVE InputsOf(_)
InputsOf(n) ==
  IF n = 1 THEN {Seg(s) : s \in InputSegs}
  ELSE {p \o <<sep>> \o Seg(s) : p \in InputsOf(n - 1), sep \in Seps, s \in InputSegs}

Inputs == UNION {InputsOf(n) : n \in 1..MaxSegs}

(***************************************************************************)
(* Errors.                                                                 *)
(***************************************************************************)
nil == <<>>

Errorf(fmt, name) == <<[fmt |-> fmt, name |-> name]>>

\* fmt.Errorf(fmt + ": %v", name, cause)
ErrorfV(fmt, name, cause) == <<[fmt |-> fmt, name |-> name]>> \o cause

(***************************************************************************)
(* strings and path of the Go library, on token sequences.                 *)
(***************************************************************************)
\* strings.Replace(s, old, new, -1) for one-character old and new
Replace(s, old, new) == [i \in 1..Len(s) |-> IF s[i] = old THEN new ELSE s[i]]

\* strings.Split(s, sep): the segments between the separators
RECURSIVE Split(_, _)
Split(s, sep) ==
  IF \E i \in 1..Len(s) : s[i] = sep
  THEN LET i == CHOOSE i \in 1..Len(s) : s[i] = sep /\ \A j \in 1..(i - 1) : s[j] # sep
       IN  <<SubSeq(s, 1, i - 1)>> \o Split(SubSeq(s, i + 1, Len(s)), sep)
  ELSE <<s>>

\* the elements joined with "/"
RECURSIVE JoinSlash(_)
JoinSlash(segs) ==
  IF Len(segs) = 0 THEN <<>>
  ELSE IF Len(segs) = 1 THEN segs[1]
  ELSE segs[1] \o <<"/">> \o JoinSlash(Tail(segs))

\* the lexical processing of path.Clean / filepath.Clean on the elements:
\* empty elements and "." are dropped, ".." removes the element before it
\* (and stays when there is none to remove and the path is not rooted)
RECURSIVE CleanSegs(_, _, _)
CleanSegs(segs, out, rooted) ==
  IF Len(segs) = 0 THEN out
  ELSE LET s == Head(segs)
           rest == Tail(segs)
       IN  IF s = <<>> \/ s = <<".">> THEN CleanSegs(rest, out, rooted)
           ELSE IF s = <<"..">>
                THEN IF Len(out) > 0 /\ out[Len(out)] # <<"..">>
                     THEN CleanSegs(rest, SubSeq(out, 1, Len(out) - 1), rooted)
                     ELSE IF rooted THEN CleanSegs(rest, out, rooted)
                     ELSE CleanSegs(rest, Append(out, s), rooted)
                ELSE CleanSegs(rest, Append(out, s), rooted)

\* path.Clean
Clean(p) ==
  LET rooted == Len(p) > 0 /\ p[1] = "/"
      out == JoinSlash(CleanSegs(Split(p, "/"), <<>>, rooted))
  IN  IF rooted THEN <<"/">> \o out
      ELSE IF out = <<>> THEN <<".">> ELSE out

\* path.Join(a, b): the non-empty elements joined with "/", then cleaned
Join(a, b) ==
  IF a = <<>> /\ b = <<>> THEN <<>>
  ELSE IF a = <<>> THEN Clean(b)
  ELSE IF b = <<>> THEN Clean(a)
  ELSE Clean(a \o <<"/">> \o b)

\* path.Dir(p): everything up to the last "/", cleaned
Dir(p) ==
  LET slashes == {i \in 1..Len(p) : p[i] = "/"}
      i == IF slashes = {} THEN 0 ELSE CHOOSE m \in slashes : \A n \in slashes : n <= m
  IN  Clean(SubSeq(p, 1, i))

(***************************************************************************)
(* The embedded data.                                                      *)
(***************************************************************************)
Artifacts == {"nocompress", "compress"}

\* "// sample file\n", the content of each of the four input files
SampleFile == <<47, 47, 32, 115, 97, 109, 112, 108, 101, 32, 102, 105, 108, 101, 10>>

\* the package-level slices as the generated file initialises them; in the
\* compressed artifact a payload is written as the bytes it inflates to,
\* and gzip[v] says what the gzip reader does with it
EmbeddedVars == {"_in_a_test_asset", "_in_b_test_asset", "_in_c_test_asset", "_in_test_asset"}

EmbeddedInit == [v \in EmbeddedVars |-> SampleFile]

GzipOutcomes == {"ok", "header", "stream", "close"}

bindataFileInfo(name, size, mode, modTime) ==
  [name |-> name, size |-> size, mode |-> mode, modTime |-> modTime]

NoInfo == bindataFileInfo(<<>>, 0, 0, 0)

\* the *asset a loader returns with a nil error, and the nil *asset
asset(bytes, info) == [bytes |-> bytes, info |-> info]

NoAsset == asset(nil, NoInfo)

\* bindataRead(data, name), compressed artifact; data is [body, gz]
bindataRead(data, name) ==
  IF data.gz = "header"
  THEN [bytes |-> nil, err |-> ErrorfV("Read %q: %v", name, Errorf("gzip: invalid header", <<>>))]
  ELSE LET err == IF data.gz = "stream" THEN Errorf("gzip: invalid checksum", <<>>) ELSE nil
           clErr == IF data.gz \in {"stream", "close"} THEN Errorf("gzip: close", <<>>) ELSE nil
       IN  IF err # nil THEN [bytes |-> nil, err |-> ErrorfV("Read %q: %v", name, err)]
           ELSE IF clErr # nil THEN [bytes |-> nil, err |-> err]
           ELSE [bytes |-> data.body, err |-> nil]

\* the payload the compressed artifact holds in the variable v
Payload(v) == [body |-> embedded[v], gz |-> gzip[v]]

KeyA == <<"in", "/", "a", "/", "test.asset">>
KeyB == <<"in", "/", "b", "/", "test.asset">>
KeyC == <<"in", "/", "c", "/", "test.asset">>
KeyT == <<"in", "/", "test.asset">>

in_a_test_asset_bytes ==
  IF artifact = "compress" THEN bindataRead(Payload("_in_a_test_asset"), KeyA)
  ELSE [bytes |-> embedded["_in_a_test_asset"], err |-> nil]

in_a_test_asset ==
  LET b == in_a_test_asset_bytes
  IN  IF b.err # nil THEN [a |-> NoAsset, err |-> b.err]
      ELSE [a |-> asset(b.bytes, bindataFileInfo(KeyA, 15, 420,
                                                 IF artifact = "compress" THEN 1431385279 ELSE 1430781941)),
            err |-> nil]

in_b_test_asset_bytes ==
  IF artifact = "compress" THEN bindataRead(Payload("_in_b_test_asset"), KeyB)
  ELSE [bytes |-> embedded["_in_b_test_asset"], err |-> nil]

in_b_test_asset ==
  LET b == in_b_test_asset_bytes
  IN  IF b.err # nil THEN [a |-> NoAsset, err |-> b.err]
      ELSE [a |-> asset(b.bytes, bindataFileInfo(KeyB, 15, 420,
                                                 1430781941)),
            err |-> nil]

in_c_test_asset_bytes ==
  IF artifact = "compress" THEN bindataRead(Payload("_in_c_test_asset"), KeyC)
  ELSE [bytes |-> embedded["_in_c_test_asset"], err |-> nil]

in_c_test_asset ==
  LET b == in_c_test_asset_bytes
  IN  IF b.err # nil THEN [a |-> NoAsset, err |-> b.err]
      ELSE [a |-> asset(b.bytes, bindataFileInfo(KeyC, 15, 420,
                                                 1430781941)),
            err |-> nil]

in_test_asset_bytes ==
  IF artifact = "compress" THEN bindataRead(Payload("_in_test_asset"), KeyT)
  ELSE [bytes |-> embedded["_in_test_asset"], err |-> nil]

in_test_asset ==
  LET b == in_test_asset_bytes
  IN  IF b.err # nil THEN [a |-> NoAsset, err |-> b.err]
      ELSE [a |-> asset(b.bytes, bindataFileInfo(KeyT, 15, 420,
                                                 1430781941)),
            err |-> nil]

\* calling the function value f
Call(f) ==
  CASE f = "in_a_test_asset" -> in_a_test_asset
    [] f = "in_b_test_asset" -> in_b_test_asset
    [] f = "in_c_test_asset" -> in_c_test_asset
    [] f = "in_test_asset" -> in_test_asset

\* the package-level slice the loader f reads
VarOf(f) ==
  CASE f = "in_a_test_asset" -> "_in_a_test_asset"
    [] f = "in_b_test_asset" -> "_in_b_test_asset"
    [] f = "in_c_test_asset" -> "_in_c_test_asset"
    [] f = "in_test_asset" -> "_in_test_asset"

\* the literal _bindata is initialised with: asset name -> loader
_bindata_literal ==
  (KeyA :> "in_a_test_asset") @@ (KeyB :> "in_b_test_asset") @@
  (KeyC :> "in_c_test_asset") @@ (KeyT :> "in_test_asset")

\* a tree node; Func = "nil" for a directory
_bintree_t(f, children) == [Func |-> f, Children |-> children]

NoChildren == [n \in {} |-> 0]

\* the tree with the leaf in/b/test.asset holding the loader of in/c/test.asset
_bintree_WrongLoader ==
  _bintree_t("nil", ("in" :> _bintree_t("nil",
      ("a" :> _bintree_t("nil", ("test.asset" :> _bintree_t("in_a_test_asset", NoChildren)))) @@
      ("b" :> _bintree_t("nil", ("test.asset" :> _bintree_t("in_c_test_asset", NoChildren)))) @@
      ("c" :> _bintree_t("nil", ("test.asset" :> _bintree_t("in_c_test_asset", NoChildren)))) @@
      ("test.asset" :> _bintree_t("in_test_asset", NoChildren)))))

\* the literal _bintree is initialised with
_bintree_literal ==
  _bintree_t("nil", ("in" :> _bintree_t("nil",
      ("a" :> _bintree_t("nil", ("test.asset" :> _bintree_t("in_a_test_asset", NoChildren)))) @@
      ("b" :> _bintree_t("nil", ("test.asset" :> _bintree_t("in_b_test_asset", NoChildren)))) @@
      ("c" :> _bintree_t("nil", ("test.asset" :> _bintree_t("in_c_test_asset", NoChildren)))) @@
      ("test.asset" :> _bintree_t("in_test_asset", NoChildren)))))

(***************************************************************************)
(* The lookup API.                                                         *)
(***************************************************************************)
\* Asset looking the name up as given, without replacing backslashes
Asset_NoReplace(name) ==
  IF name \in DOMAIN _bindata
  THEN LET r == Call(_bindata[name])
       IN  IF r.err # nil
           THEN [bytes |-> nil, err |-> ErrorfV("Asset %s can't read by error: %v", name, r.err)]
           ELSE [bytes |-> r.a.bytes, err |-> nil]
  ELSE [bytes |-> nil, err |-> Errorf("Asset %s not found", name)]

Asset(name) ==
  LET cannonicalName == Replace(name, "\\", "/")
  IN  IF cannonicalName \in DOMAIN _bindata
      THEN LET r == Call(_bindata[cannonicalName])
           IN  IF r.err # nil
               THEN [bytes |-> nil, err |-> ErrorfV("Asset %s can't read by error: %v", name, r.err)]
               ELSE [bytes |-> r.a.bytes, err |-> nil]
      ELSE [bytes |-> nil, err |-> Errorf("Asset %s not found", name)]

AssetInfo(name) ==
  LET cannonicalName == Replace(name, "\\", "/")
  IN  IF cannonicalName \in DOMAIN _bindata
      THEN LET r == Call(_bindata[cannonicalName])
           IN  IF r.err # nil
               THEN [info |-> NoInfo, err |-> ErrorfV("AssetInfo %s can't read by error: %v", name, r.err)]
               ELSE [info |-> r.a.info, err |-> nil]
      ELSE [info |-> NoInfo, err |-> Errorf("AssetInfo %s not found", name)]

\* MustAsset returning what Asset returned, whatever the error
MustAsset_NoPanic(name) ==
  LET r == Asset(name)
  IN  [bytes |-> r.bytes, panic |-> nil]

\* MustAsset(name): the bytes it returns, or the value it panics with
\* ("asset: Asset(" + name + "): " + err.Error())
MustAsset(name) ==
  LET r == Asset(name)
  IN  IF r.err # nil
      THEN [bytes |-> nil, panic |-> ErrorfV("asset: Asset(%s): %s", name, r.err)]
      ELSE [bytes |-> r.bytes, panic |-> nil]

\* the orders in which ranging over a map with key set S can yield the keys
Orders(S) ==
  {s \in [1..Cardinality(S) -> S] : \A i, j \in 1..Cardinality(S) : s[i] = s[j] => i = j}

\* the loop of AssetDir: node = node.Children[p] for each p of pathList;
\* [found |-> FALSE] when a child is nil
RECURSIVE Walk(_, _)
Walk(node, pathList) ==
  IF Len(pathList) = 0 THEN [found |-> TRUE, node |-> node]
  ELSE LET p == Head(pathList)
           c == IF Len(p) = 0 THEN "" ELSE p[1]
       IN  IF Len(p) <= 1 /\ c \in DOMAIN node.Children
           THEN Walk(node.Children[c], Tail(pathList))
           ELSE [found |-> FALSE, node |-> node]

\* AssetDir reporting a leaf with an error of its own
AssetDir_NotDir(name) ==
  LET w == IF Len(name) # 0
           THEN Walk(_bintree, Split(Replace(name, "\\", "/"), "/"))
           ELSE [found |-> TRUE, node |-> _bintree]
  IN  IF ~w.found THEN {[rv |-> <<>>, err |-> Errorf("Asset %s not found", name)]}
      ELSE IF w.node.Func # "nil" THEN {[rv |-> <<>>, err |-> Errorf("Asset %s is not a directory", name)]}
      ELSE {[rv |-> [i \in DOMAIN o |-> Seg(o[i])], err |-> nil] : o \in Orders(DOMAIN w.node.Children)}

\* AssetDir listing the children of the root instead of those of the node
AssetDir_Root(name) ==
  LET w == IF Len(name) # 0
           THEN Walk(_bintree, Split(Replace(name, "\\", "/"), "/"))
           ELSE [found |-> TRUE, node |-> _bintree]
  IN  IF ~w.found THEN {[rv |-> <<>>, err |-> Errorf("Asset %s not found", name)]}
      ELSE IF w.node.Func # "nil" THEN {[rv |-> <<>>, err |-> Errorf("Asset %s not found", name)]}
      ELSE {[rv |-> [i \in DOMAIN o |-> Seg(o[i])], err |-> nil] : o \in Orders(DOMAIN _bintree.Children)}

\* AssetDir(name): the results the call can return (one per iteration order)
AssetDir(name) ==
  LET w == IF Len(name) # 0
           THEN Walk(_bintree, Split(Replace(name, "\\", "/"), "/"))
           ELSE [found |-> TRUE, node |-> _bintree]
  IN  IF ~w.found THEN {[rv |-> <<>>, err |-> Errorf("Asset %s not found", name)]}
      ELSE IF w.node.Func # "nil" THEN {[rv |-> <<>>, err |-> Errorf("Asset %s not found", name)]}
      ELSE {[rv |-> [i \in DOMAIN o |-> Seg(o[i])], err |-> nil] : o \in Orders(DOMAIN w.node.Children)}

(***************************************************************************)
(* Calls of the lookup API by the program that links the artifact in.      *)
(***************************************************************************)
Result(op, name, bytes, info, rv, err) ==
  [op |-> op, name |-> name, bytes |-> bytes, info |-> info, rv |-> rv, err |-> err]

NoCall == Result("none", <<>>, nil, NoInfo, <<>>, nil)

RestoreIdle ==
  /\ pc = "idle"
  /\ panicked = nil
  /\ UNCHANGED <<input, _bindata, _bintree, artifact, gzip, pc, stack, ret, dirs, files, log, entry,
                 panicked, validation>>

CallAsset ==
  /\ RestoreIdle
  /\ LET r == Asset(input)
     IN  last' = Result("Asset", input, r.bytes, NoInfo, <<>>, r.err)
  /\ UNCHANGED <<embedded, nwrites>>

CallAssetInfo ==
  /\ RestoreIdle
  /\ LET r == AssetInfo(input)
     IN  last' = Result("AssetInfo", input, nil, r.info, <<>>, r.err)
  /\ UNCHANGED <<embedded, nwrites>>

CallAssetDir ==
  /\ RestoreIdle
  /\ \E r \in AssetDir(input) :
       last' = Result("AssetDir", input, nil, NoInfo, r.rv, r.err)
  /\ UNCHANGED <<embedded, nwrites>>

\* a panic is not recovered: the program ends with it
CallMustAsset ==
  /\ pc = "idle"
  /\ panicked = nil
  /\ LET r == MustAsset(input)
     IN  /\ last' = Result("MustAsset", input, r.bytes, NoInfo, <<>>, nil)
         /\ panicked' = r.panic
  /\ UNCHANGED <<input, _bindata, _bintree, artifact, embedded, gzip, nwrites, pc, stack, ret,
                 dirs, files, log, entry, validation>>

\* The caller of the last Asset call stores byte b at index i of the slice
\* it was given.  In the uncompressed artifact that slice is the
\* package-level slice itself (<name>_bytes returns it); in the compressed
\* artifact it is the buffer bindataRead allocated for that call.
CallerWrite(i, b) ==
  /\ RestoreIdle
  /\ last.op = "Asset" /\ last.err = nil
  /\ i \in 1..Len(last.bytes)
  /\ nwrites < MaxWrites
  /\ nwrites' = nwrites + 1
  /\ LET v == VarOf(_bindata[Replace(last.name, "\\", "/")])
     IN  embedded' = IF artifact = "nocompress"
                     THEN [embedded EXCEPT ![v][i] = b]
                     ELSE embedded
  /\ UNCHANGED last

\* at most one embedded payload is one the gzip reader rejects
GzipInit ==
  {[v \in EmbeddedVars |-> "ok"]} \cup
  {[v \in EmbeddedVars |-> IF v = bad THEN o ELSE "ok"] :
     bad \in EmbeddedVars, o \in GzipOutcomes \ {"ok"}}

NoFiles == [p \in {} |-> 0]

\* no Config has been validated
NoValidation == [done |-> FALSE]

InitArtifact ==
  /\ input \in Inputs
  /\ _bindata = _bindata_literal
  /\ _bintree = _bintree_literal
  /\ artifact \in Artifacts
  /\ embedded = EmbeddedInit
  /\ gzip \in GzipInit
  /\ artifact = "nocompress" => gzip = [v \in EmbeddedVars |-> "ok"]
  /\ last = NoCall
  /\ nwrites = 0
  /\ pc = "idle"
  /\ stack = <<>>
  /\ ret = nil
  /\ log = <<>>
  /\ panicked = nil
  /\ validation = NoValidation

Init ==
  /\ InitArtifact
  /\ dirs = {}
  /\ files = NoFiles
  /\ entry = [fn |-> "none", files |-> NoFiles]

Next ==
  \/ CallAsset
  \/ CallAssetInfo
  \/ CallAssetDir
  \/ CallMustAsset
  \/ CallerWrite(1, 88)

Spec == Init /\ [][Next]_vars

(***************************************************************************)
(* The target file system.  A path is the sequence of its elements, the    *)
(* first being dir.  The umask is taken not to mask the recorded bits.     *)
(***************************************************************************)
TargetDir == <<"out">>

\* the clock of the file system when a file is written, later than every
\* recorded modification time
WallClock == 1431385279 + 1

Prefixes(path) == {SubSeq(path, 1, n) : n \in 1..Len(path)}

Parent(path) == SubSeq(path, 1, Len(path) - 1)

FileStat(data, mode, atime, mtime) ==
  [data |-> data, mode |-> mode, atime |-> atime, mtime |-> mtime]

_filePath(dir, name) ==
  LET cannonicalName == Replace(name, "\\", "/")
  IN  CleanSegs(<<dir>> \o Split(cannonicalName, "/"), <<>>, FALSE)

\* the outcomes of the file system for os.MkdirAll(path): <<>> when it
\* refuses nothing, else the missing directory whose mkdir it refuses
MkdirFaults(path) == {<<>>} \cup (Prefixes(path) \ dirs)

\* os.MkdirAll(path, 0755): the missing directories are made one by one
\* from the top, so those above the refused one stay
MkdirAll(path, fault) ==
  IF path \in dirs THEN [dirs |-> dirs, err |-> nil]
  ELSE IF \E q \in Prefixes(path) : q \in DOMAIN files
  THEN [dirs |-> dirs, err |-> Errorf("mkdir: not a directory", <<>>)]
  ELSE IF fault # <<>>
  THEN [dirs |-> dirs \cup {q \in Prefixes(path) : Len(q) < Len(fault)},
        err |-> Errorf("mkdir: permission denied", <<>>)]
  ELSE [dirs |-> dirs \cup Prefixes(path), err |-> nil]

\* ioutil.WriteFile(path, data, perm): open with O_WRONLY|O_CREATE|O_TRUNC
\* (perm applies only when the file is created), write, close.
\* fault: "none", "open" (the open is refused) or "write" (the write fails
\* after the file was created or truncated, before any byte was stored).
\* The directory above a one-element path exists, as for MkdirAll.
WriteFile(path, data, perm, fault) ==
  IF \E q \in Prefixes(Parent(path)) : q \in DOMAIN files
  THEN [files |-> files, err |-> Errorf("open: not a directory", <<>>)]
  ELSE IF Parent(path) # <<>> /\ Parent(path) \notin dirs
  THEN [files |-> files, err |-> Errorf("open: no such file or directory", <<>>)]
  ELSE IF path \in dirs
  THEN [files |-> files, err |-> Errorf("open: is a directory", <<>>)]
  ELSE IF fault = "open"
  THEN [files |-> files, err |-> Errorf("open: permission denied", <<>>)]
  ELSE LET mode == IF path \in DOMAIN files THEN files[path].mode ELSE perm
           atime == IF path \in DOMAIN files THEN files[path].atime ELSE WallClock
       IN  IF fault = "write"
           THEN [files |-> (path :> FileStat(<<>>, mode, atime, WallClock)) @@ files,
                 err |-> Errorf("write: no space left on device", <<>>)]
           ELSE [files |-> (path :> FileStat(data, mode, atime, WallClock)) @@ files,
                 err |-> nil]

\* os.Chtimes(path, atime, mtime); the times of a directory are not part
\* of the state, so setting them leaves the files as they are
Chtimes(path, atime, mtime, fault) ==
  IF \E q \in Prefixes(Parent(path)) : q \in DOMAIN files
  THEN [files |-> files, err |-> Errorf("chtimes: not a directory", <<>>)]
  ELSE IF path \in dirs
  THEN IF fault THEN [files |-> files, err |-> Errorf("chtimes: operation not permitted", <<>>)]
       ELSE [files |-> files, err |-> nil]
  ELSE IF path \notin DOMAIN files
  THEN [files |-> files, err |-> Errorf("chtimes: no such file or directory", <<>>)]
  ELSE IF fault THEN [files |-> files, err |-> Errorf("chtimes: operation not permitted", <<>>)]
  ELSE [files |-> [files EXCEPT ![path].atime = atime, ![path].mtime = mtime], err |-> nil]

(***************************************************************************)
(* RestoreAsset and RestoreAssets, one step per call into the file system. *)
(***************************************************************************)
Frame(fn, name, at, children, data, info) ==
  [fn |-> fn, name |-> name, pc |-> at, children |-> children, data |-> data, info |-> info]

Top == stack[Len(stack)]

SetTop(f) == [stack EXCEPT ![Len(stack)] = f]

Step(op, name, path, err) == [op |-> op, name |-> name, path |-> path, err |-> err]

Running(fn, at) ==
  /\ pc = "running"
  /\ stack # <<>>
  /\ Top.fn = fn
  /\ Top.pc = at

\* a callee that ignores the error of the call that returned
Unwind_Ignore(stk, err) ==
  [stack |-> SubSeq(stk, 1, Len(stk) - 1), ret |-> nil]

\* The call on top of stk returns err.  Every caller below it is a
\* RestoreAssets in its loop: `if err != nil { return err }` passes an error
\* on to the top-level caller, a nil error lets the loop go on.
Unwind(stk, err) ==
  IF err # nil THEN [stack |-> <<>>, ret |-> err]
  ELSE [stack |-> SubSeq(stk, 1, Len(stk) - 1), ret |-> nil]

Return(err) ==
  LET u == Unwind(stack, err)
  IN  /\ stack' = u.stack
      /\ ret' = u.ret
      /\ pc' = IF u.stack = <<>> THEN "done" ELSE "running"

\* RestoreAssets after AssetDir returned r: a file is handed to
\* RestoreAsset, a directory is looped over
RestoreAssetsEnter(f, r) ==
  IF r.err # nil
  THEN Frame("RestoreAsset", f.name, "start", <<>>, nil, NoInfo)
  ELSE [f EXCEPT !.pc = "loop", !.children = r.rv]

\* the loop calling RestoreAssets(dir, child), the child's name alone
LoopPush_NoJoin(stk) ==
  LET f == stk[Len(stk)]
  IN  Append([stk EXCEPT ![Len(stk)].children = Tail(f.children)],
             Frame("RestoreAssets", Head(f.children), "start", <<>>, nil, NoInfo))

\* the loop giving up after its first child
LoopPush_FirstOnly(stk) ==
  LET f == stk[Len(stk)]
  IN  Append([stk EXCEPT ![Len(stk)].children = <<>>],
             Frame("RestoreAssets", Join(f.name, Head(f.children)), "start", <<>>, nil, NoInfo))

\* one iteration of the loop: RestoreAssets(dir, path.Join(name, child))
LoopPush(stk) ==
  LET f == stk[Len(stk)]
  IN  Append([stk EXCEPT ![Len(stk)].children = Tail(f.children)],
             Frame("RestoreAssets", Join(f.name, Head(f.children)), "start", <<>>, nil, NoInfo))

RestoreFixed ==
  UNCHANGED <<input, _bindata, _bintree, artifact, embedded, gzip, last, nwrites, entry,
              panicked, validation>>

CallRestoreAssets ==
  /\ pc = "idle"
  /\ pc' = "running"
  /\ stack' = <<Frame("RestoreAssets", input, "start", <<>>, nil, NoInfo)>>
  /\ entry' = [fn |-> "RestoreAssets", files |-> files]
  /\ UNCHANGED <<input, _bindata, _bintree, artifact, embedded, gzip, last, nwrites, ret, dirs, files, log,
                 panicked, validation>>

CallRestoreAsset ==
  /\ pc = "idle"
  /\ pc' = "running"
  /\ stack' = <<Frame("RestoreAsset", input, "start", <<>>, nil, NoInfo)>>
  /\ entry' = [fn |-> "RestoreAsset", files |-> files]
  /\ UNCHANGED <<input, _bindata, _bintree, artifact, embedded, gzip, last, nwrites, ret, dirs, files, log,
                 panicked, validation>>

RestoreAssetsDir ==
  /\ Running("RestoreAssets", "start")
  /\ \E r \in AssetDir(Top.name) : stack' = SetTop(RestoreAssetsEnter(Top, r))
  /\ UNCHANGED <<pc, ret, dirs, files, log>>
  /\ RestoreFixed

RestoreAssetsLoop ==
  /\ Running("RestoreAssets", "loop")
  /\ IF Top.children = <<>>
     THEN Return(nil)
     ELSE stack' = LoopPush(stack) /\ UNCHANGED <<pc, ret>>
  /\ UNCHANGED <<dirs, files, log>>
  /\ RestoreFixed

RestoreAssetLookup ==
  /\ Running("RestoreAsset", "start")
  /\ LET a == Asset(Top.name)
         i == AssetInfo(Top.name)
     IN  IF a.err # nil
         THEN /\ log' = Append(log, Step("Asset", Top.name, <<>>, a.err))
              /\ Return(a.err)
         ELSE IF i.err # nil
         THEN /\ log' = log \o <<Step("Asset", Top.name, <<>>, nil),
                                 Step("AssetInfo", Top.name, <<>>, i.err)>>
              /\ Return(i.err)
         ELSE /\ log' = log \o <<Step("Asset", Top.name, <<>>, nil),
                                 Step("AssetInfo", Top.name, <<>>, nil)>>
              /\ stack' = SetTop([Top EXCEPT !.pc = "mkdir", !.data = a.bytes, !.info = i.info])
              /\ UNCHANGED <<pc, ret>>
  /\ UNCHANGED <<dirs, files>>
  /\ RestoreFixed

RestoreAssetMkdir ==
  /\ Running("RestoreAsset", "mkdir")
  /\ \E fault \in MkdirFaults(_filePath(TargetDir, Dir(Top.name))) :
       LET path == _filePath(TargetDir, Dir(Top.name))
           r == MkdirAll(path, fault)
       IN  /\ dirs' = r.dirs
           /\ log' = Append(log, Step("MkdirAll", Top.name, path, r.err))
           /\ IF r.err # nil THEN Return(r.err)
              ELSE stack' = SetTop([Top EXCEPT !.pc = "write"]) /\ UNCHANGED <<pc, ret>>
  /\ UNCHANGED files
  /\ RestoreFixed

RestoreAssetWrite ==
  /\ Running("RestoreAsset", "write")
  /\ \E fault \in {"none", "open", "write"} :
       LET path == _filePath(TargetDir, Top.name)
           r == WriteFile(path, Top.data, Top.info.mode, fault)
       IN  /\ files' = r.files
           /\ log' = Append(log, Step("WriteFile", Top.name, path, r.err))
           /\ IF r.err # nil THEN Return(r.err)
              ELSE stack' = SetTop([Top EXCEPT !.pc = "chtimes"]) /\ UNCHANGED <<pc, ret>>
  /\ UNCHANGED dirs
  /\ RestoreFixed

RestoreAssetChtimes ==
  /\ Running("RestoreAsset", "chtimes")
  /\ \E fault \in BOOLEAN :
       LET path == _filePath(TargetDir, Top.name)
           r == Chtimes(path, Top.info.modTime, Top.info.modTime, fault)
       IN  /\ files' = r.files
           /\ log' = Append(log, Step("Chtimes", Top.name, path, r.err))
           /\ Return(r.err)
  /\ UNCHANGED dirs
  /\ RestoreFixed

\* the target directory as the call finds it: missing; holding an older
\* in/a/test.asset with other content, mode and times; holding a regular
\* file named in; holding a directory named in/test.asset
OldFile == FileStat(<<111, 108, 100>>, 384, 1, 1)

InitialFS ==
  LET out == <<TargetDir>>
      in == <<TargetDir, <<"in">>>>
      a == <<TargetDir, <<"in">>, <<"a">>>>
  IN  { [dirs |-> {}, files |-> NoFiles],
        [dirs |-> {out, in, a}, files |-> (Append(a, <<"test.asset">>) :> OldFile)],
        [dirs |-> {out}, files |-> (in :> OldFile)],
        [dirs |-> {out, in, Append(in, <<"test.asset">>)}, files |-> NoFiles] }

InitRestore ==
  /\ InitArtifact
  /\ \E fs \in InitialFS : dirs = fs.dirs /\ files = fs.files
  /\ entry = [fn |-> "none", files |-> NoFiles]

NextRestore ==
  \/ CallRestoreAssets
  \/ CallRestoreAsset
  \/ RestoreAssetsDir
  \/ RestoreAssetsLoop
  \/ RestoreAssetLookup
  \/ RestoreAssetMkdir
  \/ RestoreAssetWrite
  \/ RestoreAssetChtimes

SpecRestore == InitRestore /\ [][NextRestore]_vars

\* The program is sequential, so a call in progress takes its next step.
\* This is WF_vars(NextRestore) for the call: every state with pc = "running"
\* has a frame on top of its stack, and one of the steps is enabled for each
\* position of a frame, so ENABLED <<NextRestore>>_vars is pc = "running"
\* there, and weak fairness says that such steps keep happening.
RestoreProgress == []<>(pc # "running") \/ []<><<NextRestore>>_vars

\* The Tree Builder, which writes the two literals: each canonical
\* asset path is split on "/", an interior node is created or reused for
\* every segment but the last, and the leaf with the loader is attached at
\* the last.
RECURSIVE TreeInsert(_, _, _)
TreeInsert(node, segs, f) ==
  LET n == segs[1][1]
      child == IF n \in DOMAIN node.Children THEN node.Children[n]
               ELSE _bintree_t("nil", NoChildren)
  IN  IF Len(segs) = 1
      THEN [node EXCEPT !.Children = (n :> _bintree_t(f, NoChildren)) @@ @]
      ELSE [node EXCEPT !.Children = (n :> TreeInsert(child, Tail(segs), f)) @@ @]

RECURSIVE TreeBuilder(_)
TreeBuilder(table) ==
  IF DOMAIN table = {} THEN _bintree_t("nil", NoChildren)
  ELSE LET k == CHOOSE k \in DOMAIN table : TRUE
           rest == [q \in DOMAIN table \ {k} |-> table[q]]
       IN  TreeInsert(TreeBuilder(rest), Split(k, "/"), table[k])

\* the artifacts of the input directories that hold some of the four
\* sample files: the table and the tree the generator writes for each
Bundles ==
  {[table |-> [k \in K |-> _bindata_literal[k]],
    tree |-> TreeBuilder([k \in K |-> _bindata_literal[k]])] : K \in SUBSET DOMAIN _bindata_literal}

InitTrees ==
  /\ input \in Inputs
  /\ \E b \in Bundles : _bindata = b.table /\ _bintree = b.tree
  /\ artifact = "nocompress"
  /\ embedded = EmbeddedInit
  /\ gzip = [v \in EmbeddedVars |-> "ok"]
  /\ last = NoCall
  /\ nwrites = 0
  /\ pc = "idle"
  /\ stack = <<>>
  /\ ret = nil
  /\ log = <<>>
  /\ panicked = nil
  /\ validation = NoValidation
  /\ dirs = {}
  /\ files = NoFiles
  /\ entry = [fn |-> "none", files |-> NoFiles]

SpecRestoreTrees == InitTrees /\ [][NextRestore]_vars /\ RestoreProgress

(***************************************************************************)
(* Config and Config.validate.  The file system validate looks at is the   *)
(* answer of os.Lstat for each path: "absent", "denied" (Lstat fails for   *)
(* another reason), "file" or "dir"; getwd says whether os.Getwd succeeds. *)
(***************************************************************************)
Config(Package, Tags, Input, Output, Prefix, NoMemCopy, NoCompress, Debug, Recursive) ==
  [Package |-> Package, Tags |-> Tags, Input |-> Input, Output |-> Output, Prefix |-> Prefix,
   NoMemCopy |-> NoMemCopy, NoCompress |-> NoCompress, Debug |-> Debug, Recursive |-> Recursive]

\* the directory os.Getwd returns
Cwd == <<"cwd">>

LstatKinds == {"absent", "denied", "file", "dir"}

\* os.Lstat(path): exists says the FileInfo is not nil
Lstat(env, path) ==
  LET kind == env.lstat[path]
  IN  IF kind = "absent"
      THEN [exists |-> FALSE, isDir |-> FALSE,
            err |-> Errorf("lstat %s: no such file or directory", path)]
      ELSE IF kind = "denied"
      THEN [exists |-> FALSE, isDir |-> FALSE, err |-> Errorf("lstat %s: permission denied", path)]
      ELSE [exists |-> TRUE, isDir |-> kind = "dir", err |-> nil]

\* os.IsNotExist(err)
IsNotExist(err) == err # nil /\ err[1].fmt = "lstat %s: no such file or directory"

\* validate without the check of the package name
validate_NoPackageCheck(c, env) ==
  LET stat == Lstat(env, c.Input)
  IN  IF stat.err # nil THEN [c |-> c, err |-> ErrorfV("Input path: %v", <<>>, stat.err)]
      ELSE IF ~stat.isDir THEN [c |-> c, err |-> Errorf("Input path is not a directory.", <<>>)]
      ELSE IF Len(c.Output) = 0 /\ ~env.getwd
      THEN [c |-> c, err |-> Errorf("Unable to determine current working directory.", <<>>)]
      ELSE LET c2 == IF Len(c.Output) = 0
                     THEN [c EXCEPT !.Output = Join(Cwd, <<"bindata.go">>)]
                     ELSE c
               out == Lstat(env, c2.Output)
           IN  IF out.err # nil /\ ~IsNotExist(out.err)
               THEN [c |-> c2, err |-> ErrorfV("Output path: %v", <<>>, out.err)]
               ELSE IF out.exists /\ out.isDir
               THEN [c |-> c2, err |-> Errorf("Output path is a directory.", <<>>)]
               ELSE [c |-> c2, err |-> nil]

\* (c *Config) validate(): the Config it leaves and the error it returns
validate(c, env) ==
  IF Len(c.Package) = 0 THEN [c |-> c, err |-> Errorf("Missing package name", <<>>)]
  ELSE LET stat == Lstat(env, c.Input)
       IN  IF stat.err # nil THEN [c |-> c, err |-> ErrorfV("Input path: %v", <<>>, stat.err)]
           ELSE IF ~stat.isDir THEN [c |-> c, err |-> Errorf("Input path is not a directory.", <<>>)]
           ELSE IF Len(c.Output) = 0 /\ ~env.getwd
           THEN [c |-> c, err |-> Errorf("Unable to determine current working directory.", <<>>)]
           ELSE LET c2 == IF Len(c.Output) = 0
                          THEN [c EXCEPT !.Output = Join(Cwd, <<"bindata.go">>)]
                          ELSE c
                    out == Lstat(env, c2.Output)
                IN  IF out.err # nil /\ ~IsNotExist(out.err)
                    THEN [c |-> c2, err |-> ErrorfV("Output path: %v", <<>>, out.err)]
                    ELSE IF out.exists /\ out.isDir
                    THEN [c |-> c2, err |-> Errorf("Output path is a directory.", <<>>)]
                    ELSE [c |-> c2, err |-> nil]

\* the configurations handed to validate and the file systems they meet
InputRoot == <<"data">>

GivenOutput == <<"out.go">>

DefaultOutput == <<"cwd", "/", "bindata.go">>

Configs ==
  {Config(pkg, tags, InputRoot, out, prefix, flags[1], flags[2], flags[3], flags[4]) :
     pkg \in {<<>>, <<"main">>}, tags \in {<<>>, <<"dev">>}, out \in {<<>>, GivenOutput},
     prefix \in {<<>>, InputRoot}, flags \in {<<FALSE, FALSE, FALSE, FALSE>>, <<TRUE, FALSE, TRUE, FALSE>>,
                                              <<FALSE, TRUE, FALSE, TRUE>>, <<TRUE, TRUE, TRUE, TRUE>>}}

Envs ==
  {[lstat |-> l, getwd |-> g] :
     l \in [{InputRoot, GivenOutput, DefaultOutput} -> LstatKinds], g \in BOOLEAN}

CallValidate ==
  /\ ~validation.done
  /\ LET r == validate(validation.c, validation.env)
     IN  validation' = [validation EXCEPT !.done = TRUE, !.c = r.c, !.err = r.err]
  /\ UNCHANGED <<input, _bindata, _bintree, artifact, embedded, gzip, last, nwrites, pc, stack, ret,
                 dirs, files, log, entry, panicked>>

InitConfig ==
  /\ input = <<>>
  /\ _bindata = _bindata_literal
  /\ _bintree = _bintree_literal
  /\ artifact = "nocompress"
  /\ embedded = EmbeddedInit
  /\ gzip = [v \in EmbeddedVars |-> "ok"]
  /\ last = NoCall
  /\ nwrites = 0
  /\ pc = "idle"
  /\ stack = <<>>
  /\ ret = nil
  /\ log = <<>>
  /\ panicked = nil
  /\ dirs = {}
  /\ files = NoFiles
  /\ entry = [fn |-> "none", files |-> NoFiles]
  /\ \E c \in Configs, env \in Envs :
       validation = [done |-> FALSE, given |-> c, c |-> c, env |-> env, err |-> nil]

NextConfig == CallValidate

SpecConfig == InitConfig /\ [][NextConfig]_vars

(***************************************************************************)
(* Vocabulary of the properties, stated from the table alone.              *)
(***************************************************************************)
\* p with every backslash turned into a forward slash
RECURSIVE Canon(_)
Canon(p) ==
  IF p = <<>> THEN <<>>
  ELSE <<IF Head(p) = "\\" THEN "/" ELSE Head(p)>> \o Canon(Tail(p))

Keys == DOMAIN _bindata

HasBackslash(p) == \E i \in 1..Len(p) : p[i] = "\\"

\* p names a directory of the bundle: the root, or the part of a key in
\* front of one of its slashes
IsDirOf(p, k) == \E n \in 2..Len(k) : k[n] = "/" /\ Canon(p) = SubSeq(k, 1, n - 1)

IsDirPath(p) == p = <<>> \/ \E k \in Keys : IsDirOf(p, k)

\* the keys under the directory p
KeysUnder(p) == IF p = <<>> THEN Keys ELSE {k \in Keys : IsDirOf(p, k)}

\* the names directly below the directory p
ChildNames(p) == {<<k[IF p = <<>> THEN 1 ELSE Len(p) + 2]>> : k \in KeysUnder(p)}

NotFound(p) == <<[fmt |-> "Asset %s not found", name |-> p]>>

\* every node of the tree with the "/"-join of the names leading to it
RECURSIVE NodesOf(_, _)
NodesOf(node, path) ==
  {[path |-> path, node |-> node]} \cup
  UNION {NodesOf(node.Children[n], IF path = <<>> THEN <<n>> ELSE path \o <<"/", n>>) :
           n \in DOMAIN node.Children}

(***************************************************************************)
(* C1: Asset(p) looks p up under the key that is p with every backslash    *)
(* replaced by a forward slash; on a hit whose loader succeeds it returns  *)
(* the bytes of that loader's asset and no error, on a miss it returns no  *)
(* bytes and the error "Asset p not found" naming p as it was requested.   *)
(* Stated of every step in which an Asset call returns.                    *)
(***************************************************************************)
C1_AssetLookup ==
  [][(last' # last /\ last'.op = "Asset") =>
       LET key == Canon(last'.name)
       IN  /\ (key \in Keys /\ Call(_bindata[key]).err = nil) =>
                (last'.bytes = Call(_bindata[key]).a.bytes /\ last'.err = nil)
           /\ key \notin Keys =>
                (last'.bytes = nil /\ last'.err = <<[fmt |-> "Asset %s not found", name |-> last'.name]>>)]_vars

\* a hit through a backslash spelling
C1_Witness ==
  /\ last.op = "Asset" /\ HasBackslash(last.name)
  /\ last.err = nil /\ last.bytes = SampleFile

(***************************************************************************)
(* C2: the table and the tree agree in both directions: every key of       *)
(* _bindata is the path of a tree node holding the loader registered       *)
(* under the key, every node holding a loader lies at a path that is a key *)
(* with that loader, no node has both a loader and children, and the root  *)
(* has no loader.                                                          *)
(***************************************************************************)
C2_TableTreeAgree ==
  LET nodes == NodesOf(_bintree, <<>>)
  IN  /\ \A k \in Keys : \E x \in nodes : x.path = k /\ x.node.Func = _bindata[k]
      /\ \A x \in nodes : x.node.Func # "nil" =>
           (x.path \in Keys /\ _bindata[x.path] = x.node.Func)
      /\ \A x \in nodes : ~(x.node.Func # "nil" /\ DOMAIN x.node.Children # {})
      /\ _bintree.Func = "nil"

\* a key was looked up in the table and the descent of the tree along its
\* segments ends at the node with the same loader
C2_Witness ==
  /\ last.op = "Asset" /\ last.err = nil /\ Canon(last.name) = KeyA
  /\ Walk(_bintree, Split(KeyA, "/")).found
  /\ Walk(_bintree, Split(KeyA, "/")).node.Func = _bindata[KeyA]

(***************************************************************************)
(* C3 as claimed: AssetDir on a path that resolves to a leaf fails with a  *)
(* condition other than the NotFound it reports for an absent segment.     *)
(***************************************************************************)
C3_Claimed ==
  (last.op = "AssetDir" /\ Canon(last.name) \in Keys) =>
    (last.err # nil /\ last.err # NotFound(last.name))

(***************************************************************************)
(* C3 amended: AssetDir has one failure condition.  It succeeds exactly on *)
(* the paths that resolve to a directory, and on every other path, whether *)
(* a segment is absent or the resolved node is a leaf, it returns the same *)
(* error "Asset p not found" naming p.                                     *)
(***************************************************************************)
C3_OneFailure ==
  last.op = "AssetDir" =>
    /\ IsDirPath(last.name) => last.err = nil
    /\ ~IsDirPath(last.name) => (last.rv = <<>> /\ last.err = NotFound(last.name))

\* AssetDir on a leaf returned the NotFound error
C3_Witness ==
  /\ last.op = "AssetDir" /\ Canon(last.name) \in Keys
  /\ last.err = NotFound(last.name)

(***************************************************************************)
(* C4: on a path that resolves to a directory (the empty path to the root) *)
(* AssetDir returns no error and the names of the immediate children of    *)
(* that directory, each exactly once and nothing else.                     *)
(***************************************************************************)
C4_DirListing ==
  (last.op = "AssetDir" /\ IsDirPath(last.name)) =>
    /\ last.err = nil
    /\ \A i, j \in 1..Len(last.rv) : last.rv[i] = last.rv[j] => i = j
    /\ {last.rv[i] : i \in 1..Len(last.rv)} = ChildNames(Canon(last.name))

\* the listing of "in", which has three directories and a file in it
C4_Witness ==
  /\ last.op = "AssetDir" /\ last.name = <<"in">>
  /\ last.err = nil /\ Len(last.rv) = 4

C9_SameContent ==
  [][(/\ last.op = "Asset" /\ last.err = nil
      /\ last'.op = "Asset" /\ last'.err = nil
      /\ last'.name = last.name) => last'.bytes = last.bytes]_vars

TargetOf(k) ==
  <<TargetDir>> \o [i \in 1..Len(SelectSeq(k, LAMBDA t : t # "/")) |->
                      <<SelectSeq(k, LAMBDA t : t # "/")[i]>>]

\* the files a successful WriteFile of this call wrote
Written == {log[i].path : i \in {j \in 1..Len(log) : log[j].op = "WriteFile" /\ log[j].err = nil}}

(***************************************************************************)
(* C5: when RestoreAssets(dir, d) returns success for a path d that        *)
(* resolves to a directory, then for every key k under d the file at dir   *)
(* joined with the segments of k exists and holds exactly the bytes        *)
(* Asset(k) returns, and every other file is as it was before the call.    *)
(***************************************************************************)
C5_RestoreDirComplete ==
  (pc = "done" /\ entry.fn = "RestoreAssets" /\ ret = nil /\ IsDirPath(input)) =>
    /\ \A k \in KeysUnder(input) :
         /\ TargetOf(k) \in DOMAIN files
         /\ files[TargetOf(k)].data = Asset(k).bytes
    /\ \A p \in DOMAIN files \ {TargetOf(k) : k \in KeysUnder(input)} :
         p \in DOMAIN entry.files /\ files[p] = entry.files[p]
    /\ Written = {TargetOf(k) : k \in KeysUnder(input)}

\* the whole bundle restored from a directory path
C5_Witness ==
  /\ pc = "done" /\ entry.fn = "RestoreAssets" /\ ret = nil
  /\ IsDirPath(input) /\ Cardinality(KeysUnder(input)) = 4
  /\ \A k \in Keys : TargetOf(k) \in DOMAIN files /\ files[TargetOf(k)].data = SampleFile

(***************************************************************************)
(* C6 as claimed: for every spelling p that Asset accepts, RestoreAsset    *)
(* has created all parent directories of the target file (dir joined with  *)
(* the segments of the canonical path) before it writes; after the write   *)
(* the file holds the bytes with the recorded permission bits; and on      *)
(* success the file holds the asset's bytes, mode and modification time.   *)
(***************************************************************************)
C6_MkdirWriteChtimes ==
  /\ Running("RestoreAsset", "write") =>
       Prefixes(Parent(TargetOf(Canon(Top.name)))) \subseteq dirs
  /\ Running("RestoreAsset", "chtimes") =>
       /\ TargetOf(Canon(Top.name)) \in DOMAIN files
       /\ files[TargetOf(Canon(Top.name))].data = Top.data
       /\ files[TargetOf(Canon(Top.name))].mode = Top.info.mode
  /\ (pc = "done" /\ entry.fn = "RestoreAsset" /\ ret = nil) =>
       /\ TargetOf(Canon(input)) \in DOMAIN files
       /\ files[TargetOf(Canon(input))] =
            FileStat(Asset(input).bytes, AssetInfo(input).info.mode,
                     AssetInfo(input).info.modTime, AssetInfo(input).info.modTime)

(***************************************************************************)
(* C7: in a RestoreAssets call the first step that fails (Asset,           *)
(* AssetInfo, MkdirAll, WriteFile or Chtimes) is the last step of the      *)
(* call, its error is the error the top-level caller gets, nothing happens *)
(* after the call has returned, and the files written earlier in the call  *)
(* are still there, unchanged, when it returns the error.                  *)
(***************************************************************************)
C7_FirstFailureAborts ==
  /\ [](\A i \in 1..Len(log) : log[i].err # nil =>
          (i = Len(log) /\ pc = "done" /\ ret = log[i].err))
  /\ [][/\ pc # "done"
        /\ (pc' = "done" /\ ret' # nil) =>
             \A p \in Written : p \in DOMAIN files' /\ files'[p] = files[p]]_vars

\* a recursive restore that failed after it had written and stamped a file
C7_Witness ==
  /\ pc = "done" /\ entry.fn = "RestoreAssets" /\ ret # nil
  /\ \E i \in 1..Len(log) : log[i].op = "Chtimes" /\ log[i].err = nil
  /\ log[Len(log)].op \in {"MkdirAll", "WriteFile", "Chtimes"}
  /\ log[Len(log)].err = ret

(***************************************************************************)
(* C11: MustAsset is a thin wrapper over Asset: when Asset(p) succeeds     *)
(* MustAsset(p) returns the same bytes and does not panic, and when        *)
(* Asset(p) returns an error (a miss or a read failure) MustAsset(p)       *)
(* panics, with a value that carries that error, and returns nothing.      *)
(***************************************************************************)
C11_MustAssetWraps ==
  last.op = "MustAsset" =>
    LET a == Asset(last.name)
    IN  /\ a.err = nil => (panicked = nil /\ last.bytes = a.bytes)
        /\ a.err # nil =>
             /\ panicked # nil
             /\ last.bytes = nil
             /\ SubSeq(panicked, 2, Len(panicked)) = a.err

\* MustAsset panicked on a path that is not in the table
C11_Witness ==
  /\ last.op = "MustAsset" /\ Canon(last.name) \notin Keys
  /\ panicked # nil

(***************************************************************************)
(* C12 as claimed: Config.validate returns an error exactly when the input *)
(* root does not exist, the input root is not a directory, or an           *)
(* explicitly given output destination is an existing directory.           *)
(***************************************************************************)
C12_Claimed ==
  validation.done =>
    (validation.err # nil <=>
       \/ validation.env.lstat[validation.given.Input] = "absent"
       \/ validation.env.lstat[validation.given.Input] = "file"
       \/ /\ validation.given.Output # <<>>
          /\ validation.env.lstat[validation.given.Output] = "dir")

(***************************************************************************)
(* C12 amended: Config.validate returns an error exactly when the package  *)
(* name is empty, Lstat of the input root fails (it does not exist, or for *)
(* another reason), the input root is not a directory, no output is given  *)
(* and the working directory cannot be determined, or the output (the      *)
(* given one, else bindata.go in the working directory) is an existing     *)
(* directory or cannot be examined for a reason other than not existing.   *)
(* Every other configuration is accepted, whatever Tags, Prefix and the    *)
(* four flags are, and only an empty Output is changed, to the default.    *)
(***************************************************************************)
C12_ValidateExactly ==
  validation.done =>
    LET g == validation.given
        kind == validation.env.lstat
        output == IF g.Output = <<>> THEN DefaultOutput ELSE g.Output
    IN  /\ validation.err # nil <=>
             \/ g.Package = <<>>
             \/ kind[g.Input] \in {"absent", "denied"}
             \/ kind[g.Input] = "file"
             \/ g.Output = <<>> /\ ~validation.env.getwd
             \/ kind[output] \in {"denied", "dir"}
        /\ validation.err = nil => validation.c = [g EXCEPT !.Output = output]

\* a Config rejected for its empty package name alone
C12_Witness ==
  /\ validation.done /\ validation.err # nil
  /\ validation.given.Package = <<>>
  /\ validation.env.lstat[validation.given.Input] = "dir"
  /\ validation.given.Output = GivenOutput
  /\ validation.env.lstat[GivenOutput] = "absent"

\* q names a place strictly below p in the tree
StrictlyBelow(p, q) ==
  LET a == Canon(p)
      b == Canon(q)
  IN  IF a = <<>> THEN b # <<>>
      ELSE /\ Len(b) > Len(a) + 1
           /\ SubSeq(b, 1, Len(a)) = a
           /\ b[Len(a) + 1] = "/"

\* every nested call is for a place strictly below its caller's, so no
\* call in progress is for the path the outermost call started from
C13_Descends ==
  /\ \A i \in 2..Len(stack) : StrictlyBelow(stack[i - 1].name, stack[i].name)
  /\ \A i \in 2..Len(stack) : Canon(stack[i].name) # Canon(stack[1].name)

\* no leaf is looked up twice in one call, and under RestoreAssets every
\* leaf looked up is the start path or below it
C13_LeafOnce ==
  /\ \A i, j \in 1..Len(log) :
       (i < j /\ log[i].op = "Asset" /\ log[j].op = "Asset") =>
         Canon(log[i].name) # Canon(log[j].name)
  /\ entry.fn = "RestoreAssets" =>
       \A i \in 1..Len(log) :
         log[i].name = input \/ StrictlyBelow(input, log[i].name)

====
